---- MODULE Spec2Model ----
(***************************************************************************)
(* Model of SU2's data-driven fluid model (CDataDrivenFluid.cpp) and of    *)
(* the flamelet fluid model (CFluidFlamelet.cpp).                          *)
(*                                                                         *)
(* su2double values are modelled as IEEE-754 extended numbers with exact   *)
(* rational finite part: a record [n, d, s] where                          *)
(*    d > 0, n # 0 : the finite number n/d (lowest terms), s its sign      *)
(*    d > 0, n = 0 : zero, s its sign (+0.0 / -0.0)                        *)
(*    d = 0, n # 0 : infinity of sign s = n                                *)
(*    d = 0, n = 0 : NaN                                                   *)
(* Rounding and exponent overflow of finite values are not modelled.       *)
(***************************************************************************)
EXTENDS Integers, Sequences, FiniteSets, TLC

\* ------------------------------------------------------------------------
\* su2double arithmetic
\* ------------------------------------------------------------------------
AbsI(i) == IF i < 0 THEN -i ELSE i

SgnI(i) == IF i < 0 THEN -1 ELSE 1

RECURSIVE Gcd(_, _)
Gcd(a, b) == IF b = 0 THEN a ELSE Gcd(b, a % b)

NaN == [n |-> 0, d |-> 0, s |-> 1]

Inf(sg) == [n |-> sg, d |-> 0, s |-> sg]

Zero(sg) == [n |-> 0, d |-> 1, s |-> sg]

\* the finite number n/d, d > 0, in lowest terms (an exact zero result is +0.0)
Q(n, d) ==
  IF n = 0 THEN Zero(1)
  ELSE LET g == Gcd(AbsI(n), d) IN [n |-> n \div g, d |-> d \div g, s |-> SgnI(n)]

\* an integer literal
Num(i) == Q(i, 1)

IsNaN(x) == x.d = 0 /\ x.n = 0

IsInf(x) == x.d = 0 /\ x.n # 0

IsZero(x) == x.d # 0 /\ x.n = 0

IsFinite(x) == x.d # 0

\* unary minus
Neg(x) == IF IsNaN(x) THEN x ELSE [n |-> -x.n, d |-> x.d, s |-> -x.s]

\* x * y
Mul(x, y) ==
  IF IsNaN(x) \/ IsNaN(y) THEN NaN
  ELSE IF (IsInf(x) /\ IsZero(y)) \/ (IsZero(x) /\ IsInf(y)) THEN NaN
  ELSE IF IsInf(x) \/ IsInf(y) THEN Inf(x.s * y.s)
  ELSE IF IsZero(x) \/ IsZero(y) THEN Zero(x.s * y.s)
  ELSE LET g1 == Gcd(AbsI(x.n), y.d)
           g2 == Gcd(AbsI(y.n), x.d)
       IN [n |-> (x.n \div g1) * (y.n \div g2),
           d |-> (x.d \div g2) * (y.d \div g1),
           s |-> x.s * y.s]

\* x / y
Div(x, y) ==
  IF IsNaN(x) \/ IsNaN(y) THEN NaN
  ELSE IF (IsInf(x) /\ IsInf(y)) \/ (IsZero(x) /\ IsZero(y)) THEN NaN
  ELSE IF IsInf(x) \/ IsZero(y) THEN Inf(x.s * y.s)
  ELSE IF IsInf(y) \/ IsZero(x) THEN Zero(x.s * y.s)
  ELSE Mul(x, [n |-> y.s * y.d, d |-> AbsI(y.n), s |-> y.s])

\* x + y
Add(x, y) ==
  IF IsNaN(x) \/ IsNaN(y) THEN NaN
  ELSE IF IsInf(x) /\ IsInf(y) THEN (IF x.s = y.s THEN x ELSE NaN)
  ELSE IF IsInf(x) THEN x
  ELSE IF IsInf(y) THEN y
  ELSE IF IsZero(x) /\ IsZero(y) THEN (IF x.s = y.s THEN x ELSE Zero(1))
  ELSE IF IsZero(x) THEN y
  ELSE IF IsZero(y) THEN x
  ELSE LET g == Gcd(x.d, y.d)
       IN Q(x.n * (y.d \div g) + y.n * (x.d \div g), (x.d \div g) * y.d)

\* x - y
Sub(x, y) == Add(x, Neg(y))

\* abs(x)
Abs(x) == IF IsNaN(x) THEN x ELSE [n |-> AbsI(x.n), d |-> x.d, s |-> 1]

\* x < y (false when either operand is NaN)
Lt(x, y) ==
  IF IsNaN(x) \/ IsNaN(y) THEN FALSE
  ELSE IF IsInf(x) THEN x.s = -1 /\ ~(IsInf(y) /\ y.s = -1)
  ELSE IF IsInf(y) THEN y.s = 1
  ELSE x.n * y.d < y.n * x.d

\* pow(x, 2), pow(x, -1), pow(x, -2)
Pow2(x) == Mul(x, x)

PowM1(x) == Div(Num(1), x)

PowM2(x) == Div(Num(1), Mul(x, x))

\* ------------------------------------------------------------------------
\* The manifold (MLPToolbox::CLookUp_ANN / CLookUpTable): a black box that
\* maps (Density, Energy) to s, dsde_rho, dsdrho_e, d2sde2, d2sdedrho,
\* d2sdrho2.  Four deterministic manifolds are considered.
\* ------------------------------------------------------------------------
Outputs(s0, se, sr, see, ser, srr) ==
  [s |-> s0, dsde_rho |-> se, dsdrho_e |-> sr,
   d2sde2 |-> see, d2sdedrho |-> ser, d2sdrho2 |-> srr]

\* constant-output stub: s = 1000, s_e = 0.002, s_rho = -0.5, second derivatives 0
ManifoldStub(rho, e) ==
  Outputs(Num(1000), Q(1, 500), Q(-1, 2), Zero(1), Zero(1), Zero(1))

\* isothermal gas: s_e = 1/512, s_rho = -1/(2 rho) (T = 512, P = 256 rho);
\* the entropy level itself is reported as e/512 - rho/2
ManifoldIso(rho, e) ==
  Outputs(Sub(Div(e, Num(512)), Div(rho, Num(2))),
          Q(1, 512),
          Div(Q(-1, 2), rho),
          Zero(1),
          Zero(1),
          Div(Q(1, 2), Pow2(rho)))

\* ideal-gas like: s_e = 16/e, s_rho = -8/rho (T = e/16, P = rho e/2);
\* the entropy level itself is reported as e/16 - 8 rho
ManifoldGas(rho, e) ==
  Outputs(Sub(Div(e, Num(16)), Mul(Num(8), rho)),
          Div(Num(16), e),
          Div(Num(-8), rho),
          Div(Num(-16), Pow2(e)),
          Zero(1),
          Div(Num(8), Pow2(rho)))

\* T = e and P = rho e, but reporting d2sde2 = -(e - 1000)/e^2, so that
\* dT/de = e - 1000: a Newton step in e towards T = 1000 has length exactly 1
ManifoldSlow(rho, e) ==
  Outputs(Sub(e, rho),
          Div(Num(1), e),
          Div(Num(-1), rho),
          Div(Neg(Sub(e, Num(1000))), Pow2(e)),
          Zero(1),
          Div(Num(1), Pow2(rho)))

Manifold(m, rho, e) ==
  CASE m = "Stub" -> ManifoldStub(rho, e)
    [] m = "Iso" -> ManifoldIso(rho, e)
    [] m = "Gas" -> ManifoldGas(rho, e)
    [] OTHER -> ManifoldSlow(rho, e)

\* lookup_mlp->Predict_ANN(iomap_rhoe, MLP_inputs, outputs_rhoe): writes the six
\* outputs through the pointers registered in MapInputs_to_Outputs
Predict_ANN(f, m, inputs) ==
  LET o == Manifold(m, inputs[1], inputs[2])
  IN [f EXCEPT !.Entropy = o.s, !.dsde_rho = o.dsde_rho, !.dsdrho_e = o.dsdrho_e,
               !.d2sde2 = o.d2sde2, !.d2sdedrho = o.d2sdedrho,
               !.d2sdrho2 = o.d2sdrho2]

\* lookup_table->LookUp_ProgEnth(names, outputs, rho, e, "Density", "Energy")
LookUp_ProgEnth(f, m, rho, e) == Predict_ANN(f, m, <<rho, e>>)

\* ------------------------------------------------------------------------
\* CDataDrivenFluid: derived state and forward evaluator
\* ------------------------------------------------------------------------
FieldNames ==
  {"Density", "StaticEnergy", "Entropy", "dsde_rho", "dsdrho_e", "d2sde2",
   "d2sdedrho", "d2sdrho2", "SoundSpeed2", "Temperature", "Pressure",
   "dTde_rho", "dTdrho_e", "dPde_rho", "dPdrho_e", "Cp", "Cv", "Gamma",
   "Gamma_Minus_One", "Gas_Constant"}

\* the fields right after CFluidModel()
FreshFluid == [x \in FieldNames |-> Zero(1)]

\* the switch on Kind_DataDriven_Method: the backend writes the entropy and
\* its derivatives into the instance
Evaluate(f, kind, m, rho, e) ==
  CASE kind = "MLP" -> Predict_ANN(f, m, <<f.Density, f.StaticEnergy>>)
    [] kind = "LUT" -> LookUp_ProgEnth(f, m, rho, e)
    [] OTHER -> f

blue_term(f, rho) ==
  Add(Mul(f.dsdrho_e,
          Sub(Num(2), Mul(Mul(rho, PowM1(f.dsde_rho)), f.d2sdedrho))),
      Mul(rho, f.d2sdrho2))

green_term(f) ==
  Add(Mul(Mul(Neg(PowM1(f.dsde_rho)), f.d2sde2), f.dsdrho_e), f.d2sdedrho)

\* speed of sound and temperature
Primary(f, rho) ==
  [f EXCEPT !.SoundSpeed2 =
              Mul(Mul(Neg(rho), PowM1(f.dsde_rho)),
                  Sub(blue_term(f, rho),
                      Mul(Mul(rho, green_term(f)), Div(f.dsdrho_e, f.dsde_rho)))),
            !.Temperature = Div(Num(1), f.dsde_rho)]

\* pressure, density, energy and the temperature derivatives
Secondary(f, rho, e) ==
  [f EXCEPT !.Pressure = Mul(Mul(Neg(Pow2(rho)), f.Temperature), f.dsdrho_e),
            !.Density = rho,
            !.StaticEnergy = e,
            !.dTde_rho = Mul(Neg(PowM2(f.dsde_rho)), f.d2sde2),
            !.dTdrho_e = Zero(1)]

\* the pressure derivatives
PressureDerivatives(f, rho) ==
  [f EXCEPT !.dPde_rho = Mul(Mul(Neg(Pow2(rho)), f.dTde_rho), f.dsdrho_e),
            !.dPdrho_e =
              Sub(Mul(Mul(Mul(Num(-2), rho), f.Temperature), f.dsdrho_e),
                  Mul(Mul(Pow2(rho), f.Temperature), f.d2sdrho2))]

\* the specific heats
SpecificHeats(f) ==
  [f EXCEPT !.Cp = Mul(Div(Num(1), f.dTde_rho),
                       Add(Num(1), Mul(Div(Num(1), f.Density), f.dPde_rho))),
            !.Cv = Div(Num(1), f.dTde_rho)]

Ratio(f) == [f EXCEPT !.Gamma = Div(f.Cp, f.Cv)]

GasConstants(f) ==
  [f EXCEPT !.Gamma_Minus_One = Sub(f.Gamma, Num(1)),
            !.Gas_Constant = Sub(f.Cp, f.Cv)]

\* an evaluator that feeds the backend the density and energy the instance
\* held before the call
SetTDState_rhoe_Stale(f, kind, m, rho, e) ==
  GasConstants(Ratio(SpecificHeats(PressureDerivatives(
    Secondary(Primary(Evaluate(f, kind, m, rho, e), rho), rho, e),
    rho))))

\* SetTDState_rhoe(rho, e) on an instance whose fields are f
SetTDState_rhoe(f, kind, m, rho, e) ==
  GasConstants(Ratio(SpecificHeats(PressureDerivatives(
    Secondary(Primary(Evaluate([f EXCEPT !.Density = rho, !.StaticEnergy = e],
                               kind, m, rho, e),
                      rho),
              rho, e),
    rho))))

\* ------------------------------------------------------------------------
\* Newton solvers: constants of the loops
\* ------------------------------------------------------------------------
tolerance_P == 10

tolerance_T == 1

tolerance_h == 10

tolerance_s == 1

iter_max == 1000

\* a test that passes as soon as one residual is within its tolerance
Within2_Either(r1, tol1, r2, tol2) ==
  Lt(Abs(r1), Num(tol1)) \/ Lt(Abs(r2), Num(tol2))

\* (abs(r1) < tol1) && (abs(r2) < tol2)
Within2(r1, tol1, r2, tol2) == Lt(Abs(r1), Num(tol1)) /\ Lt(Abs(r2), Num(tol2))

\* a test a hundred times as wide
Within1_Wide(r1, tol1) == Lt(Abs(r1), Num(100 * tol1))

\* (abs(r1) < tol1)
Within1(r1, tol1) == Lt(Abs(r1), Num(tol1))

\* a loop that tests Iter <= iter_max
LoopCond_Late(st) == ~st.converged /\ st.Iter <= iter_max

\* while(!converged && (Iter < iter_max))
LoopCond(st) == ~st.converged /\ st.Iter < iter_max

\* the locals of a solver at its first loop test, on an instance with fields f
Locals(f, rho0, e0) ==
  [fluid |-> f, rho |-> rho0, e |-> e0, Iter |-> 0, converged |-> FALSE]

\* SetTDState_PT(P, T): what follows SetTDState_rhoe(rho, e) in the loop body,
\* f being the derived state of that evaluation
Step_PT(st, f, P, T, relax) ==
  LET delta_P == Sub(f.Pressure, P)
      delta_T == Sub(f.Temperature, T)
      determinant == Sub(Mul(f.dPdrho_e, f.dTde_rho), Mul(f.dPde_rho, f.dTdrho_e))
      delta_rho == Div(Sub(Mul(f.dTde_rho, delta_P), Mul(f.dPde_rho, delta_T)),
                       determinant)
      delta_e == Div(Add(Mul(Neg(f.dTdrho_e), delta_P), Mul(f.dPdrho_e, delta_T)),
                     determinant)
  IN IF Within2(delta_P, tolerance_P, delta_T, tolerance_T)
     THEN [st EXCEPT !.fluid = f, !.converged = TRUE, !.Iter = @ + 1]
     ELSE [st EXCEPT !.fluid = f,
                     !.rho = Sub(@, Mul(relax, delta_rho)),
                     !.e = Sub(@, Mul(relax, delta_e)),
                     !.Iter = @ + 1]

\* a step that applies the Newton update also when the test passed
Step_PT_Moving(st, f, P, T, relax) ==
  LET delta_P == Sub(f.Pressure, P)
      delta_T == Sub(f.Temperature, T)
      determinant == Sub(Mul(f.dPdrho_e, f.dTde_rho), Mul(f.dPde_rho, f.dTdrho_e))
      delta_rho == Div(Sub(Mul(f.dTde_rho, delta_P), Mul(f.dPde_rho, delta_T)),
                       determinant)
      delta_e == Div(Add(Mul(Neg(f.dTdrho_e), delta_P), Mul(f.dPdrho_e, delta_T)),
                     determinant)
  IN [st EXCEPT !.fluid = f,
                !.converged = Lt(Abs(delta_P), Num(tolerance_P))
                              /\ Lt(Abs(delta_T), Num(tolerance_T)),
                !.rho = Sub(@, Mul(relax, delta_rho)),
                !.e = Sub(@, Mul(relax, delta_e)),
                !.Iter = @ + 1]

\* a loop body that applies the Newton update also when the test passed
Body_PT_Moving(st, P, T, relax, kind, m) ==
  Step_PT_Moving(st, SetTDState_rhoe(st.fluid, kind, m, st.rho, st.e), P, T,
                 relax)

\* one pass through the loop body of SetTDState_PT(P, T)
Body_PT(st, P, T, relax, kind, m) ==
  Step_PT(st, SetTDState_rhoe(st.fluid, kind, m, st.rho, st.e), P, T, relax)

\* SetEnergy_Prho(P, rho): what follows SetTDState_rhoe(rho, e) in the loop body
Step_Prho(st, f, P, relax) ==
  LET delta_P == Sub(f.Pressure, P)
      delta_e == Div(delta_P, f.dPde_rho)
  IN IF Within1(delta_P, tolerance_P)
     THEN [st EXCEPT !.fluid = f, !.converged = TRUE, !.Iter = @ + 1]
     ELSE [st EXCEPT !.fluid = f, !.e = Sub(@, Mul(relax, delta_e)),
                     !.Iter = @ + 1]

\* one pass through the loop body of SetEnergy_Prho(P, rho)
Body_Prho(st, P, rho, relax, kind, m) ==
  Step_Prho(st, SetTDState_rhoe(st.fluid, kind, m, rho, st.e), P, relax)

\* SetTDState_rhoT(rho, T): what follows SetTDState_rhoe(rho, e) in the loop body
Step_rhoT(st, f, T, relax) ==
  LET delta_T == Sub(f.Temperature, T)
      delta_e == Div(delta_T, f.dTde_rho)
  IN IF Within1(delta_T, tolerance_T)
     THEN [st EXCEPT !.fluid = f, !.converged = TRUE, !.Iter = @ + 1]
     ELSE [st EXCEPT !.fluid = f, !.e = Sub(@, Mul(relax, delta_e)),
                     !.Iter = @ + 1]

\* a loop body that evaluates at its own density guess and moves it too
Body_rhoT_Drift(st, rho, T, relax, kind, m) ==
  Step_rhoT([st EXCEPT !.rho = Add(@, Num(1))],
            SetTDState_rhoe(st.fluid, kind, m, st.rho, st.e), T, relax)

\* one pass through the loop body of SetTDState_rhoT(rho, T)
Body_rhoT(st, rho, T, relax, kind, m) ==
  Step_rhoT(st, SetTDState_rhoe(st.fluid, kind, m, rho, st.e), T, relax)

\* SetTDState_hs(h, s): what follows SetTDState_rhoe(rho, e) in the loop body
Step_hs(st, f, h, s, relax) ==
  LET Enthalpy == Add(st.e, Div(f.Pressure, st.rho))
      delta_h == Sub(Enthalpy, h)
      delta_s == Sub(f.Entropy, s)
      dh_de == Add(Num(1), Div(f.dPde_rho, st.rho))
      dh_drho == Add(Mul(Neg(f.Pressure), PowM2(st.rho)), Div(f.dPdrho_e, st.rho))
      determinant == Sub(Mul(dh_drho, f.dsde_rho), Mul(dh_de, f.dsdrho_e))
      delta_rho == Div(Sub(Mul(f.dsde_rho, delta_h), Mul(dh_de, delta_s)),
                       determinant)
      delta_e == Div(Add(Mul(Neg(f.dsdrho_e), delta_h), Mul(dh_drho, delta_s)),
                     determinant)
  IN IF Within2(delta_h, tolerance_h, delta_s, tolerance_s)
     THEN [st EXCEPT !.fluid = f, !.converged = TRUE, !.Iter = @ + 1]
     ELSE [st EXCEPT !.fluid = f,
                     !.rho = Sub(@, Mul(relax, delta_rho)),
                     !.e = Sub(@, Mul(relax, delta_e)),
                     !.Iter = @ + 1]

\* one pass through the loop body of SetTDState_hs(h, s)
Body_hs(st, h, s, relax, kind, m) ==
  Step_hs(st, SetTDState_rhoe(st.fluid, kind, m, st.rho, st.e), h, s, relax)

\* SetTDState_Ps(P, s): what follows SetTDState_rhoe(rho, e) in the loop body
Step_Ps(st, f, P, s, relax) ==
  LET delta_P == Sub(f.Pressure, P)
      delta_s == Sub(f.Entropy, s)
      determinant == Sub(Mul(f.dPdrho_e, f.dsde_rho), Mul(f.dPde_rho, f.dsdrho_e))
      delta_rho == Div(Sub(Mul(f.dsde_rho, delta_P), Mul(f.dPde_rho, delta_s)),
                       determinant)
      delta_e == Div(Add(Mul(Neg(f.dsdrho_e), delta_P), Mul(f.dPdrho_e, delta_s)),
                     determinant)
  IN IF Within2(delta_P, tolerance_P, delta_s, tolerance_s)
     THEN [st EXCEPT !.fluid = f, !.converged = TRUE, !.Iter = @ + 1]
     ELSE [st EXCEPT !.fluid = f,
                     !.rho = Sub(@, Mul(relax, delta_rho)),
                     !.e = Sub(@, Mul(relax, delta_e)),
                     !.Iter = @ + 1]

\* one pass through the loop body of SetTDState_Ps(P, s)
Body_Ps(st, P, s, relax, kind, m) ==
  Step_Ps(st, SetTDState_rhoe(st.fluid, kind, m, st.rho, st.e), P, s, relax)

\* the loop body of the solver sv with targets a, b
Body(sv, st, a, b, relax, kind, m) ==
  CASE sv = "PT" -> Body_PT(st, a, b, relax, kind, m)
    [] sv = "Prho" -> Body_Prho(st, a, b, relax, kind, m)
    [] sv = "rhoT" -> Body_rhoT(st, a, b, relax, kind, m)
    [] sv = "hs" -> Body_hs(st, a, b, relax, kind, m)
    [] OTHER -> Body_Ps(st, a, b, relax, kind, m)

\* what follows the loop: the final forward evaluation
\* (SetTDState_Prho: StaticEnergy = e, then SetTDState_rhoe(rho, StaticEnergy))
Final(sv, st, a, b, kind, m) ==
  CASE sv = "Prho" ->
         LET f == [st.fluid EXCEPT !.StaticEnergy = st.e]
         IN SetTDState_rhoe(f, kind, m, b, f.StaticEnergy)
    [] sv = "rhoT" -> SetTDState_rhoe(st.fluid, kind, m, a, st.e)
    [] OTHER -> SetTDState_rhoe(st.fluid, kind, m, st.rho, st.e)

\* ------------------------------------------------------------------------
\* Bounds of the inputs
\* ------------------------------------------------------------------------
\* densities 1 .. MaxRho and energies 1024 * (1 .. MaxEnergy) are evaluated
MaxRho == 2

MaxEnergy == 2

Grid == {<<Num(r), Num(1024 * k)>> : r \in 1..MaxRho, k \in 1..MaxEnergy}

SlowPoints == {<<Num(1), Num(1000)>>}

Solvers == {"PT", "Prho", "rhoT", "hs", "Ps"}

\* A configuration (CConfig) together with what the callers of the instance do:
\* the points they evaluate, the solvers they call with targets read off a
\* forward evaluation at such a point, and the calls with other targets.
Cfg(k, m, r, e0, pts, svs, fx) ==
  [kind |-> k, manifold |-> m, relax |-> r, rho_init |-> Num(1), e_init |-> e0,
   points |-> pts, solvers |-> svs, fixed |-> fx]

Configs ==
  {Cfg("MLP", "Stub", Num(1), Num(1024), Grid, {"Prho", "rhoT", "hs"},
       {<<"PT", Num(1000), Num(500)>>, <<"rhoT", Num(1), Num(1000)>>,
        <<"hs", Num(1274), Num(1001)>>, <<"Ps", Num(250), Num(1002)>>}),
   Cfg("MLP", "Iso", Num(1), Num(1024), Grid, {"Prho", "rhoT", "hs", "Ps"},
       {<<"Ps", Num(256), Num(4)>>}),
   Cfg("MLP", "Gas", Q(1, 2), Num(1024), Grid, {"PT", "Prho", "rhoT"}, {}),
   Cfg("MLP", "Gas", Num(1), Num(1024), Grid, {"PT", "Prho", "rhoT"}, {}),
   Cfg("MLP", "Gas", Num(2), Num(1024), Grid, {},
       {<<"PT", Num(1024), Num(128)>>, <<"Prho", Num(1024), Num(1)>>}),
   Cfg("MLP", "Slow", Num(1), Num(1999), SlowPoints, {"Prho", "rhoT"}, {}),
   Cfg("LUT", "Gas", Num(1), Num(1024), Grid, Solvers, {}),
   Cfg("NONE", "Gas", Num(1), Num(1024), Grid, Solvers, {})}

\* ------------------------------------------------------------------------
\* State of a CDataDrivenFluid instance
\* ------------------------------------------------------------------------
VARIABLES
  config,                  \* the CConfig the instance is constructed from
  stage,                   \* "new", "ready" (constructed) or "error" (SU2_MPI::Error)
  Kind_DataDriven_Method,
  lookup_mlp,              \* TRUE once new MLPToolbox::CLookUp_ANN was made
  lookup_table,            \* TRUE once new CLookUpTable was made
  Newton_Relaxation,
  rho_start,
  e_start,
  fluid,                   \* the derived state (fields of the instance)
  pc,                      \* "idle" or the solver whose loop is running
  arg,                     \* the arguments of the running solver
  loc,                     \* its locals rho, e, Iter, converged
  ref,                     \* the same call made on a newly constructed instance
  last                     \* the call that returned last, none while one runs

dvars == <<config, stage, Kind_DataDriven_Method, lookup_mlp, lookup_table,
           Newton_Relaxation, rho_start, e_start, fluid, pc, arg, loc, ref, last>>

members == <<config, stage, Kind_DataDriven_Method, lookup_mlp, lookup_table,
             Newton_Relaxation, rho_start, e_start>>

NoPoint == <<Zero(1), Zero(1)>>

NoArg == [a |-> Zero(1), b |-> Zero(1), roundtrip |-> FALSE, point |-> NoPoint,
          warm |-> FALSE]

NoLocals == [rho |-> Zero(1), e |-> Zero(1), Iter |-> 0, converged |-> FALSE]

NoRef == [fluid |-> FreshFluid, rho |-> Zero(1), e |-> Zero(1), Iter |-> 0,
          converged |-> FALSE]

NoCall == [op |-> "none", a |-> Zero(1), b |-> Zero(1), rho |-> Zero(1),
           e |-> Zero(1), Iter |-> 0, converged |-> FALSE, roundtrip |-> FALSE,
           point |-> NoPoint, warm |-> FALSE]

DInit ==
  /\ config \in Configs
  /\ stage = "new"
  /\ Kind_DataDriven_Method = "NONE"
  /\ lookup_mlp = FALSE
  /\ lookup_table = FALSE
  /\ Newton_Relaxation = Zero(1)
  /\ rho_start = Zero(1)
  /\ e_start = Zero(1)
  /\ fluid = FreshFluid
  /\ pc = "idle"
  /\ arg = NoArg
  /\ loc = NoLocals
  /\ ref = NoRef
  /\ last = NoCall

\* ------------------------------------------------------------------------
\* CDataDrivenFluid::CDataDrivenFluid(config)
\* ------------------------------------------------------------------------
\* the backend the constructor's switch creates for a kind
BackendFor(kind) == [mlp |-> kind = "MLP", table |-> kind = "LUT"]

\* a constructor that lets both recognised kinds pass
Accepted_Both(kind) == kind \in {"MLP", "LUT"}

\* if(Kind_DataDriven_Method != MLP) SU2_MPI::Error(...): the kinds that pass
Accepted(kind) == kind = "MLP"

Construct ==
  /\ stage = "new"
  /\ Kind_DataDriven_Method' = config.kind
  /\ IF ~Accepted(config.kind)
     THEN /\ stage' = "error"
          /\ UNCHANGED <<lookup_mlp, lookup_table, Newton_Relaxation, rho_start,
                         e_start>>
     ELSE /\ stage' = "ready"
          /\ lookup_mlp' = BackendFor(config.kind).mlp
          /\ lookup_table' = BackendFor(config.kind).table
          /\ Newton_Relaxation' = config.relax
          /\ rho_start' = config.rho_init
          /\ e_start' = config.e_init
  /\ UNCHANGED <<config, fluid, pc, arg, loc, ref, last>>

\* ------------------------------------------------------------------------
\* Calls on a constructed instance
\* ------------------------------------------------------------------------
\* the derived state a forward evaluation at point p produces
Forward(c, p) == SetTDState_rhoe(FreshFluid, c.kind, c.manifold, p[1], p[2])

\* SetTDState_rhoe(rho, e) called from outside
Call_rhoe ==
  /\ stage = "ready" /\ pc = "idle"
  /\ \E p \in config.points :
       /\ fluid' = SetTDState_rhoe(fluid, Kind_DataDriven_Method, config.manifold,
                                   p[1], p[2])
       /\ last' = [NoCall EXCEPT !.op = "rhoe", !.a = p[1], !.b = p[2],
                                 !.rho = p[1], !.e = p[2], !.point = p,
                                 !.warm = (fluid # FreshFluid)]
       /\ ref' = [NoRef EXCEPT !.fluid = Forward(config, p)]
  /\ UNCHANGED <<members, pc, arg, loc>>

\* the target pair of solver sv read off the derived state f
TargetsOf(sv, f) ==
  CASE sv = "PT" -> <<f.Pressure, f.Temperature>>
    [] sv = "Prho" -> <<f.Pressure, f.Density>>
    [] sv = "rhoT" -> <<f.Density, f.Temperature>>
    [] sv = "hs" -> <<Add(f.StaticEnergy, Div(f.Pressure, f.Density)), f.Entropy>>
    [] OTHER -> <<f.Pressure, f.Entropy>>

\* the arguments callers pass to solver sv; warm tells whether the instance
\* holds the state of an earlier call
Arguments(c, sv, w) ==
  {[a |-> t[2], b |-> t[3], roundtrip |-> FALSE, point |-> NoPoint, warm |-> w] :
     t \in {x \in c.fixed : x[1] = sv}}
  \cup (IF sv \in c.solvers
        THEN {[a |-> x[1][1], b |-> x[1][2], roundtrip |-> TRUE, point |-> x[2],
               warm |-> w] :
                x \in {<<TargetsOf(sv, Forward(c, p)), p>> : p \in c.points}}
        ELSE {})

\* the initial guess of solver sv called with (a, b)
Guess(sv, a, b, rho0, e0) ==
  CASE sv = "Prho" -> <<b, e0>>
    [] sv = "rhoT" -> <<a, e0>>
    [] OTHER -> <<rho0, e0>>

\* an entry that starts from the state an earlier call left
Call_Warm(sv) ==
  /\ stage = "ready" /\ pc = "idle"
  /\ \E t \in Arguments(config, sv, fluid # FreshFluid) :
       LET g == IF fluid = FreshFluid
                THEN Guess(sv, t.a, t.b, rho_start, e_start)
                ELSE Guess(sv, t.a, t.b, fluid.Density, fluid.StaticEnergy)
           gr == Guess(sv, t.a, t.b, config.rho_init, config.e_init)
       IN /\ pc' = sv
          /\ arg' = t
          /\ loc' = [rho |-> g[1], e |-> g[2], Iter |-> 0, converged |-> FALSE]
          /\ ref' = Locals(FreshFluid, gr[1], gr[2])
  /\ last' = NoCall
  /\ UNCHANGED <<members, fluid>>

\* entry of solver sv: its locals are initialised
Call(sv) ==
  /\ stage = "ready" /\ pc = "idle"
  /\ \E t \in Arguments(config, sv, fluid # FreshFluid) :
       LET g == Guess(sv, t.a, t.b, rho_start, e_start)
           gr == Guess(sv, t.a, t.b, config.rho_init, config.e_init)
       IN /\ pc' = sv
          /\ arg' = t
          /\ loc' = [rho |-> g[1], e |-> g[2], Iter |-> 0, converged |-> FALSE]
          /\ ref' = Locals(FreshFluid, gr[1], gr[2])
  /\ last' = NoCall
  /\ UNCHANGED <<members, fluid>>

Call_PT == Call("PT")

Call_Prho == Call("Prho")

Call_rhoT == Call("rhoT")

Call_hs == Call("hs")

Call_Ps == Call("Ps")

\* the locals l of the running solver together with the instance's fields f
OnInstance(l, f) ==
  [fluid |-> f, rho |-> l.rho, e |-> l.e, Iter |-> l.Iter,
   converged |-> l.converged]

\* one iteration of the running solver's loop
Iterate ==
  /\ pc \in Solvers
  /\ LoopCond(loc)
  /\ \E st \in {Body(pc, OnInstance(loc, fluid), arg.a, arg.b,
                      Newton_Relaxation, Kind_DataDriven_Method, config.manifold)} :
       /\ fluid' = st.fluid
       /\ loc' = [rho |-> st.rho, e |-> st.e, Iter |-> st.Iter,
                  converged |-> st.converged]
  /\ ref' = IF LoopCond(ref)
            THEN Body(pc, ref, arg.a, arg.b, config.relax, config.kind,
                      config.manifold)
            ELSE ref
  /\ UNCHANGED <<members, pc, arg, last>>

\* the loop is left: final forward evaluation and return
Return ==
  /\ pc \in Solvers
  /\ ~LoopCond(loc)
  /\ fluid' = Final(pc, OnInstance(loc, fluid), arg.a, arg.b,
                    Kind_DataDriven_Method, config.manifold)
  /\ ref' = [ref EXCEPT !.fluid = Final(pc, ref, arg.a, arg.b, config.kind,
                                        config.manifold)]
  /\ last' = [op |-> pc, a |-> arg.a, b |-> arg.b, rho |-> loc.rho, e |-> loc.e,
              Iter |-> loc.Iter, converged |-> loc.converged,
              roundtrip |-> arg.roundtrip, point |-> arg.point,
              warm |-> arg.warm]
  /\ pc' = "idle"
  /\ arg' = NoArg
  /\ loc' = NoLocals
  /\ UNCHANGED members

\* ------------------------------------------------------------------------
\* CFluidFlamelet
\* ------------------------------------------------------------------------
\* bounds: user scalars, passive look-ups, values of a scalar, manifold queries
MaxUserScalars == 1

MaxLookups == 2

MaxScalar == 2

MaxQueries == 2

\* positions in the scalar vector and in the thermodynamic look-up group
I_PROGVAR == 0

I_ENTH == 1

I_MIXFRAC == 2

TEMPERATURE == 0

HEATCAPACITY == 1

VISCOSITY == 2

CONDUCTIVITY == 3

DIFFUSIONCOEFFICIENT == 4

MOLARWEIGHT == 5

LOOKUP_TD_SIZE == 6

UNIVERSAL_GAS_CONSTANT == Q(8314, 1000)

\* size() of a vector (a function on 0 .. n-1)
Size(v) == Cardinality(DOMAIN v)

\* varnames_TD as PreprocessLookUp fills it
Names_TD ==
  [i \in 0..(LOOKUP_TD_SIZE - 1) |->
     CASE i = TEMPERATURE -> <<"Temperature", 0>>
       [] i = HEATCAPACITY -> <<"Cp", 0>>
       [] i = VISCOSITY -> <<"ViscosityDyn", 0>>
       [] i = CONDUCTIVITY -> <<"Conductivity", 0>>
       [] i = DIFFUSIONCOEFFICIENT -> <<"DiffusionCoefficient", 0>>
       [] OTHER -> <<"MolarWeightMix", 0>>]

\* varnames_Sources: ProdRateTot_PV, then config->GetUserSourceName(0 .. 2n-1)
Names_Sources(nus) ==
  [i \in 0..(2 * nus) |->
     IF i = 0 THEN <<"ProdRateTot_PV", 0>> ELSE <<"UserSource", i - 1>>]

\* varnames_LookUp: config->GetLUTLookupName(0 .. n_lookups-1)
Names_LookUp(nl) == [i \in 0..(nl - 1) |-> <<"LookUp", i>>]

\* the table (CLookUpTable): its data cover progress variable, enthalpy and
\* mixture fraction in 0 .. 1; outside, the nearest point of the data is used
Inside(x) == x \in 0..1

Clamp(x) == IF x > 1 THEN 1 ELSE IF x < 0 THEN 0 ELSE x

Column(name) ==
  CASE name[1] = "Temperature" -> 300
    [] name[1] = "Cp" -> 1000
    [] name[1] = "ViscosityDyn" -> 2
    [] name[1] = "Conductivity" -> 3
    [] name[1] = "DiffusionCoefficient" -> 4
    [] name[1] = "MolarWeightMix" -> 20
    [] name[1] = "ProdRateTot_PV" -> 50
    [] name[1] = "UserSource" -> 60 + name[2]
    [] OTHER -> 70 + name[2]

TableValue(name, x, y, z) ==
  Column(name) + 100 * Clamp(x) + 10 * Clamp(y) + 5 * Clamp(z)

\* look_up_table->LookUp_XY(names, refs, x, y): fills refs, returns 1 when the
\* point is outside the table and 0 otherwise
LookUp_XY(names, refs, x, y) ==
  [refs |-> [i \in DOMAIN refs |-> TableValue(names[i], x, y, 0)],
   exit |-> IF Inside(x) /\ Inside(y) THEN 0 ELSE 1]

\* look_up_table->LookUp_XYZ(names, refs, x, y, z)
LookUp_XYZ(names, refs, x, y, z) ==
  [refs |-> [i \in DOMAIN refs |-> TableValue(names[i], x, y, z)],
   exit |-> IF Inside(x) /\ Inside(y) /\ Inside(z) THEN 0 ELSE 1]

Groups == {"TD", "SOURCES", "LOOKUP", "OTHER"}

VARIABLES
  fconfig,                 \* the CConfig and the load_manifold argument
  fstage,                  \* "new", "ready" or "error" (SU2_MPI::Error)
  n_user_scalars,
  n_control_vars,
  include_mixture_fraction,
  n_scalars,
  generate_manifold,
  varnames_TD,
  varnames_Sources,
  varnames_LookUp,
  val_vars_TD,
  scalars_vector,
  extrapolation,
  thermo,                  \* Temperature, Cp, Mu, Kt, ... of the instance
  n_queries,               \* look-ups the table has answered
  pass_any,                \* a query of the current pass reported extrapolation
  flast,                   \* the last call: arguments, vector passed, outcome
  twin                     \* the same call with another temperature and
                           \* other user scalars: what it would have left

fvars == <<fconfig, fstage, n_user_scalars, n_control_vars,
           include_mixture_fraction, n_scalars, generate_manifold, varnames_TD,
           varnames_Sources, varnames_LookUp, val_vars_TD, scalars_vector,
           extrapolation, thermo, n_queries, pass_any, flast, twin>>

fmembers == <<fconfig, n_user_scalars, n_control_vars, include_mixture_fraction,
              n_scalars, generate_manifold, varnames_TD, varnames_Sources,
              varnames_LookUp>>

vars == <<dvars, fvars>>

ThermoNames ==
  {"Temperature", "Cp", "Mu", "Kt", "mass_diffusivity", "molar_weight",
   "Density", "Cv", "Pressure"}

NoVector == [i \in {} |-> 0]

Zeros(n) == [i \in 0..(n - 1) |-> 0]

NoEval == [op |-> "none", group |-> "OTHER", len |-> 0, names |-> 0,
           inside |-> TRUE, output |-> NoVector, exit |-> 0, flag |-> 0,
           queries |-> 0, any |-> FALSE, error |-> FALSE]

NoTwin == [called |-> FALSE, queries |-> 0, temperature |-> FALSE,
           user |-> FALSE, error |-> FALSE, val_vars_TD |-> NoVector, extrapolation |-> 0,
           thermo |-> [x \in ThermoNames |-> Zero(1)], before |-> Zero(1)]

FConfigs ==
  [n_user_scalars : 0..MaxUserScalars, n_control_vars : {2, 3},
   n_lookups : 0..MaxLookups, load_manifold : BOOLEAN,
   pressure : {Num(101325)}]

FInit ==
  /\ fconfig \in FConfigs
  /\ fstage = "new"
  /\ n_user_scalars = 0
  /\ n_control_vars = 0
  /\ include_mixture_fraction = FALSE
  /\ n_scalars = 0
  /\ generate_manifold = FALSE
  /\ varnames_TD = NoVector
  /\ varnames_Sources = NoVector
  /\ varnames_LookUp = NoVector
  /\ val_vars_TD = NoVector
  /\ scalars_vector = NoVector
  /\ extrapolation = 0
  /\ thermo = [x \in ThermoNames |-> Zero(1)]
  /\ n_queries = 0
  /\ pass_any = FALSE
  /\ flast = NoEval
  /\ twin = NoTwin

\* CFluidFlamelet::CFluidFlamelet(config, value_pressure_operating, load_manifold)
\* with PreprocessLookUp(config)
FConstruct ==
  /\ fstage = "new"
  /\ fstage' = "ready"
  /\ n_user_scalars' = fconfig.n_user_scalars
  /\ n_control_vars' = fconfig.n_control_vars
  /\ include_mixture_fraction' = (fconfig.n_control_vars = 3)
  /\ n_scalars' = fconfig.n_control_vars + fconfig.n_user_scalars
  /\ generate_manifold' = fconfig.load_manifold
  /\ scalars_vector' = Zeros(fconfig.n_control_vars + fconfig.n_user_scalars)
  /\ thermo' = [thermo EXCEPT !.Pressure = fconfig.pressure]
  /\ varnames_TD' = Names_TD
  /\ val_vars_TD' = Zeros(LOOKUP_TD_SIZE)
  /\ varnames_Sources' = Names_Sources(fconfig.n_user_scalars)
  /\ varnames_LookUp' = Names_LookUp(fconfig.n_lookups)
  /\ UNCHANGED <<fconfig, extrapolation, n_queries, pass_any, flast, twin>>

\* the names EvaluateDataSet's switch selects
Varnames(lookup_type) ==
  CASE lookup_type = "TD" -> varnames_TD
    [] lookup_type = "SOURCES" -> varnames_Sources
    [] lookup_type = "LOOKUP" -> varnames_LookUp
    [] OTHER -> NoVector

\* a flag that, once raised, stays raised
StoreFlag_Any(old, exit) == IF old # 0 THEN old ELSE exit

\* extrapolation = look_up_table->LookUp_XY(...): the member after a query
\* that returned exit
StoreFlag(old, exit) == exit

\* an evaluation that queries the table before it compares the sizes
EvaluateDataSet_Late(input_scalar, lookup_type, output_refs, ext, queries) ==
  LET val_enth == input_scalar[I_ENTH]
      val_prog == input_scalar[I_PROGVAR]
      val_mixfrac == IF include_mixture_fraction THEN input_scalar[I_MIXFRAC] ELSE 0
      varnames == Varnames(lookup_type)
      refs == [i \in DOMAIN varnames |-> 0]
      r == IF include_mixture_fraction
           THEN LookUp_XYZ(varnames, refs, val_prog, val_enth, val_mixfrac)
           ELSE LookUp_XY(varnames, refs, val_prog, val_enth)
  IN [error |-> Size(output_refs) # Size(varnames), output |-> r.refs,
      extrapolation |-> r.exit, queries |-> queries + 1, exit |-> r.exit]

\* EvaluateDataSet(input_scalar, lookup_type, output_refs) with the member
\* extrapolation at ext and queries look-ups answered so far
EvaluateDataSet(input_scalar, lookup_type, output_refs, ext, queries) ==
  LET val_enth == input_scalar[I_ENTH]
      val_prog == input_scalar[I_PROGVAR]
      val_mixfrac == IF include_mixture_fraction THEN input_scalar[I_MIXFRAC] ELSE 0
      varnames == Varnames(lookup_type)
      r == IF include_mixture_fraction
           THEN LookUp_XYZ(varnames, output_refs, val_prog, val_enth, val_mixfrac)
           ELSE LookUp_XY(varnames, output_refs, val_prog, val_enth)
  IN IF Size(output_refs) # Size(varnames)
     THEN [error |-> TRUE, output |-> output_refs, extrapolation |-> ext,
           queries |-> queries, exit |-> 0]
     ELSE [error |-> FALSE, output |-> r.refs,
           extrapolation |-> StoreFlag(ext, r.exit), queries |-> queries + 1,
           exit |-> r.exit]

\* the scalar vectors callers pass: every scalar at the same value
ScalarVectors == {[i \in 0..(n_scalars - 1) |-> x] : x \in 0..MaxScalar}

\* whether the point EvaluateDataSet reads off input_scalar lies in the table
InTable(input_scalar) ==
  /\ Inside(input_scalar[I_PROGVAR])
  /\ Inside(input_scalar[I_ENTH])
  /\ include_mixture_fraction => Inside(input_scalar[I_MIXFRAC])

\* the sizes of the vectors callers pass for a group of n names
Lengths(n) == {0, n, n + 1}

\* EvaluateDataSet called from outside with a vector of len slots
Call_EvaluateDataSet ==
  /\ fstage = "ready" /\ generate_manifold
  /\ n_queries < MaxQueries
  /\ \E input \in ScalarVectors, g \in Groups :
       \E len \in Lengths(Size(Varnames(g))) :
         LET r == EvaluateDataSet(input, g, Zeros(len), extrapolation, n_queries)
         IN /\ fstage' = IF r.error THEN "error" ELSE "ready"
            /\ extrapolation' = r.extrapolation
            /\ n_queries' = r.queries
            /\ pass_any' = (pass_any \/ (~r.error /\ r.exit # 0))
            /\ flast' = [op |-> "EvaluateDataSet", group |-> g, len |-> len,
                         names |-> Size(Varnames(g)), inside |-> InTable(input),
                         output |-> r.output, exit |-> r.exit,
                         flag |-> extrapolation, queries |-> n_queries,
                         any |-> pass_any, error |-> r.error]
  /\ UNCHANGED <<fmembers, val_vars_TD, scalars_vector, thermo, twin>>

\* Temperature = val_vars_TD[TEMPERATURE] ... molar_weight = val_vars_TD[
\* MOLARWEIGHT]: the members read off the thermodynamic look-up group v
Assign_TD(th, v) ==
  [th EXCEPT !.Temperature = Num(v[TEMPERATURE]),
             !.Cp = Num(v[HEATCAPACITY]),
             !.Mu = Num(v[VISCOSITY]),
             !.Kt = Num(v[CONDUCTIVITY]),
             !.mass_diffusivity = Num(v[DIFFUSIONCOEFFICIENT]),
             !.molar_weight = Num(v[MOLARWEIGHT])]

\* Density = Pressure / (molar_weight * UNIVERSAL_GAS_CONSTANT * Temperature)
\* and Cv = Cp - UNIVERSAL_GAS_CONSTANT / molar_weight
Closure(th) ==
  [th EXCEPT !.Density =
               Div(th.Pressure,
                   Mul(Mul(th.molar_weight, UNIVERSAL_GAS_CONSTANT),
                       th.Temperature)),
             !.Cv = Sub(th.Cp, Div(UNIVERSAL_GAS_CONSTANT, th.molar_weight))]

\* an evaluation that keeps the temperature it is handed instead of the
\* temperature of the table
SetTDState_T_Target(val_temperature, val_scalars, sv0, vtd, th, ext, queries) ==
  LET sv == [iVar \in DOMAIN sv0 |-> val_scalars[iVar]]
      r == EvaluateDataSet(sv, "TD", vtd, ext, queries)
  IN [scalars_vector |-> sv, error |-> r.error, val_vars_TD |-> r.output,
      extrapolation |-> r.extrapolation, queries |-> r.queries,
      exit |-> r.exit,
      thermo |-> IF r.error THEN th
                 ELSE Closure([Assign_TD(th, r.output)
                                 EXCEPT !.Temperature = val_temperature])]

\* SetTDState_T(val_temperature, val_scalars) on an instance whose members
\* scalars_vector, val_vars_TD, thermo, extrapolation are sv0, vtd, th, ext
\* and whose table has answered queries look-ups
SetTDState_T(val_temperature, val_scalars, sv0, vtd, th, ext, queries) ==
  LET sv == [iVar \in DOMAIN sv0 |-> val_scalars[iVar]]
      r == EvaluateDataSet(sv, "TD", vtd, ext, queries)
  IN [scalars_vector |-> sv, error |-> r.error, val_vars_TD |-> r.output,
      extrapolation |-> r.extrapolation, queries |-> r.queries,
      exit |-> r.exit,
      thermo |-> IF r.error THEN th
                 ELSE Closure(Assign_TD(th, r.output))]

\* SetTDState_T(val_temperature, val_scalars): the start of an evaluation pass
Call_SetTDState_T ==
  /\ fstage = "ready" /\ generate_manifold
  /\ n_queries < MaxQueries
  /\ \E val_scalars \in ScalarVectors, val_temperature \in {Num(300), Num(400)} :
       \E r \in {SetTDState_T(val_temperature, val_scalars, scalars_vector,
                              val_vars_TD, thermo, extrapolation, n_queries)} :
          /\ scalars_vector' = r.scalars_vector
          /\ fstage' = IF r.error THEN "error" ELSE "ready"
          /\ val_vars_TD' = r.val_vars_TD
          /\ extrapolation' = r.extrapolation
          /\ n_queries' = r.queries
          /\ pass_any' = (~r.error /\ r.exit # 0)
          /\ thermo' = r.thermo
          /\ flast' = [op |-> "SetTDState_T", group |-> "TD",
                       len |-> Size(val_vars_TD), names |-> Size(varnames_TD),
                       inside |-> InTable(r.scalars_vector),
                       output |-> r.val_vars_TD,
                       exit |-> r.exit, flag |-> extrapolation,
                       queries |-> n_queries, any |-> FALSE,
                       error |-> r.error]
  /\ UNCHANGED <<fmembers, twin>>

\* the temperature arguments callers pass
Temperatures == {Num(300), Num(400)}

\* the values callers give the control variables and the user scalars
ControlVectors == [0..(n_control_vars - 1) -> 0..MaxScalar]

UserValues == {0, MaxScalar}

\* val_scalars: the control variables cv, then every user scalar at u
Scalars(cv, u) ==
  [i \in 0..(n_scalars - 1) |-> IF i < n_control_vars THEN cv[i] ELSE u]

\* SetTDState_T(300, val_scalars), and beside it the outcome the same instance
\* would have had with the temperature argument T2 and the user scalars at u2;
\* one call of a history is compared in this way
Call_SetTDState_T_Pair ==
  /\ fstage = "ready" /\ generate_manifold
  /\ n_queries < MaxQueries
  /\ ~twin.called
  /\ \E cv \in ControlVectors, u \in UserValues, u2 \in UserValues,
        T2 \in Temperatures :
       \E r \in {SetTDState_T(Num(300), Scalars(cv, u), scalars_vector,
                              val_vars_TD, thermo, extrapolation, n_queries)},
          r2 \in {SetTDState_T(T2, Scalars(cv, u2), scalars_vector,
                               val_vars_TD, thermo, extrapolation, n_queries)} :
          /\ scalars_vector' = r.scalars_vector
          /\ fstage' = IF r.error THEN "error" ELSE "ready"
          /\ val_vars_TD' = r.val_vars_TD
          /\ extrapolation' = r.extrapolation
          /\ n_queries' = r.queries
          /\ pass_any' = (~r.error /\ r.exit # 0)
          /\ thermo' = r.thermo
          /\ flast' = [op |-> "SetTDState_T", group |-> "TD",
                       len |-> Size(val_vars_TD), names |-> Size(varnames_TD),
                       inside |-> InTable(r.scalars_vector),
                       output |-> r.val_vars_TD,
                       exit |-> r.exit, flag |-> extrapolation,
                       queries |-> n_queries, any |-> FALSE,
                       error |-> r.error]
          /\ twin' = [called |-> TRUE, queries |-> r.queries,
                      temperature |-> T2 # Num(300),
                      user |-> r2.scalars_vector # r.scalars_vector,
                      error |-> r2.error,
                      val_vars_TD |-> r2.val_vars_TD,
                      extrapolation |-> r2.extrapolation,
                      thermo |-> r2.thermo,
                      before |-> thermo.Pressure]
  /\ UNCHANGED fmembers

\* ------------------------------------------------------------------------
\* Specifications
\* ------------------------------------------------------------------------
\* a CDataDrivenFluid instance and its callers
Init == DInit /\ FInit /\ fconfig = CHOOSE c \in FConfigs : TRUE

Next ==
  \/ Construct /\ UNCHANGED fvars
  \/ Call_rhoe /\ UNCHANGED fvars
  \/ Call_PT /\ UNCHANGED fvars
  \/ Call_Prho /\ UNCHANGED fvars
  \/ Call_rhoT /\ UNCHANGED fvars
  \/ Call_hs /\ UNCHANGED fvars
  \/ Call_Ps /\ UNCHANGED fvars
  \/ Iterate /\ UNCHANGED fvars
  \/ Return /\ UNCHANGED fvars

Spec == Init /\ [][Next]_vars

\* a CFluidFlamelet instance and its callers
FlameletInit == FInit /\ DInit /\ config = CHOOSE c \in Configs : TRUE

FlameletNext ==
  \/ FConstruct /\ UNCHANGED dvars
  \/ Call_EvaluateDataSet /\ UNCHANGED dvars
  \/ Call_SetTDState_T /\ UNCHANGED dvars

FlameletSpec == FlameletInit /\ [][FlameletNext]_vars

\* a CFluidFlamelet instance whose callers vary the temperature argument and
\* the user scalars of SetTDState_T
ControlNext ==
  \/ FConstruct /\ UNCHANGED dvars
  \/ Call_SetTDState_T /\ UNCHANGED dvars
  \/ Call_SetTDState_T_Pair /\ UNCHANGED dvars

ControlSpec == FlameletInit /\ [][ControlNext]_vars

\* ------------------------------------------------------------------------
\* Properties
\* ------------------------------------------------------------------------
\* an inversion has just returned
Returned == pc = "idle" /\ last.op \in Solvers

\* |r| < tol
Near(r, tol) == Lt(Abs(r), Num(tol))

\* the residuals of derived state f against the targets (a, b) of solver sv
Residuals(sv, f, a, b) ==
  <<Sub(TargetsOf(sv, f)[1], a), Sub(TargetsOf(sv, f)[2], b)>>

\* every residual solver sv tests is strictly within its tolerance
Strict(sv, f, a, b) ==
  LET r == Residuals(sv, f, a, b)
  IN CASE sv = "PT" -> Near(r[1], tolerance_P) /\ Near(r[2], tolerance_T)
       [] sv = "Prho" -> Near(r[1], tolerance_P)
       [] sv = "rhoT" -> Near(r[2], tolerance_T)
       [] sv = "hs" -> Near(r[1], tolerance_h) /\ Near(r[2], tolerance_s)
       [] OTHER -> Near(r[1], tolerance_P) /\ Near(r[2], tolerance_s)

\* the forward evaluation at (rho, e) on a newly constructed instance
Fresh(rho, e) == Forward(config, <<rho, e>>)

\* C1 (as stated): a solver that never converges leaves its loop after exactly
\* 1000 iterations, one that converges after fewer than 1000, and the call
\* returns normally with the forward evaluation at the last guess.
C1_FewerWhenConverged ==
  Returned =>
    /\ ~last.converged => last.Iter = iter_max
    /\ last.converged => last.Iter < iter_max
    /\ stage = "ready"
    /\ fluid = Fresh(last.rho, last.e)

\* C1 (amended): no loop runs more than 1000 iterations; a solver that never
\* converges returns after exactly 1000, one that converges after at most 1000
\* (the test can pass in the 1000th iteration); the call returns normally with
\* the forward evaluation at the last guess.
C1_IterationCap ==
  /\ pc \in Solvers => loc.Iter <= iter_max /\ stage = "ready"
  /\ Returned =>
       /\ ~last.converged => last.Iter = iter_max
       /\ last.Iter \in 1..iter_max
       /\ stage = "ready"
       /\ fluid = Fresh(last.rho, last.e)

\* a solver returned after 1000 iterations without converging
C1_Witness == Returned /\ ~last.converged /\ last.Iter = iter_max

\* the matrix the two-target solver sv inverts, by rows
Jacobian(sv, f) ==
  CASE sv = "PT" -> <<f.dPdrho_e, f.dPde_rho, f.dTdrho_e, f.dTde_rho>>
    [] sv = "hs" ->
         <<Add(Mul(Neg(f.Pressure), PowM2(f.Density)), Div(f.dPdrho_e, f.Density)),
           Add(Num(1), Div(f.dPde_rho, f.Density)), f.dsdrho_e, f.dsde_rho>>
    [] OTHER -> <<f.dPdrho_e, f.dPde_rho, f.dsdrho_e, f.dsde_rho>>

\* (drho, de) solves J (drho, de) = relax * r
Solves(J, drho, de, relax, r) ==
  /\ Add(Mul(J[1], drho), Mul(J[2], de)) = Mul(relax, r[1])
  /\ Add(Mul(J[3], drho), Mul(J[4], de)) = Mul(relax, r[2])

\* C2: an iteration of a two-target solver that leaves fewer than 1000 done
\* ends the loop if and only if both residuals are within their tolerances;
\* otherwise the guess moves by the relaxed Newton step.
C2_StopsIffBoth ==
  [][(pc \in {"PT", "hs", "Ps"} /\ loc'.Iter = loc.Iter + 1) =>
       LET r == Residuals(pc, fluid', arg.a, arg.b)
           both == Strict(pc, fluid', arg.a, arg.b)
           J == Jacobian(pc, fluid')
           det == Sub(Mul(J[1], J[4]), Mul(J[2], J[3]))
           drho == Sub(loc.rho, loc'.rho)
           de == Sub(loc.e, loc'.e)
       IN /\ fluid'.Density = loc.rho /\ fluid'.StaticEnergy = loc.e
          /\ loc'.converged <=> both
          /\ loc'.Iter < iter_max => (~LoopCond(loc') <=> both)
          /\ (~both /\ IsFinite(det) /\ ~IsZero(det) /\ IsFinite(r[1])
                /\ IsFinite(r[2]) /\ IsFinite(loc.rho) /\ IsFinite(loc.e)) =>
               Solves(J, drho, de, Newton_Relaxation, r)]_vars

\* the pressure-temperature solver went on after an iteration in which the
\* temperature residual alone was within tolerance
C2_Witness ==
  /\ pc = "PT" /\ loc.Iter = 1 /\ ~loc.converged
  /\ Near(Residuals("PT", fluid, arg.a, arg.b)[2], tolerance_T)
  /\ ~Near(Residuals("PT", fluid, arg.a, arg.b)[1], tolerance_P)
  /\ loc.rho # fluid.Density

\* the sizes of the output groups
ExpectedSize(g) ==
  CASE g = "TD" -> 6
    [] g = "SOURCES" -> 1 + 2 * n_user_scalars
    [] g = "LOOKUP" -> fconfig.n_lookups
    [] OTHER -> 0

\* C3 (as stated): once a query of the current pass has reported
\* extrapolation, the flag stays raised for the rest of the pass.
C3_Aggregated == (fstage = "ready" /\ pass_any) => extrapolation # 0

\* C3 (amended): the flag is the report of the most recent manifold query
\* alone: raised exactly when that query's point was outside the table,
\* whatever earlier queries of the pass reported.
C3_LastQueryOnly ==
  /\ flast.op = "none" => extrapolation = 0
  /\ (flast.op # "none" /\ ~flast.error) =>
       /\ extrapolation = flast.exit
       /\ extrapolation = 0 <=> flast.inside
  /\ flast.error => extrapolation = flast.flag

\* a query inside the table lowered the flag an earlier query of the pass raised
C3_Witness ==
  /\ flast.op = "EvaluateDataSet" /\ ~flast.error /\ flast.inside
  /\ flast.any /\ flast.flag # 0 /\ extrapolation = 0

\* C4 (as stated): construction succeeds for the two recognised kinds, with
\* exactly that backend made, and fails for any other kind.
C4_BothKinds ==
  stage # "new" =>
    IF config.kind \in {"MLP", "LUT"}
    THEN /\ stage = "ready"
         /\ lookup_mlp = (config.kind = "MLP")
         /\ lookup_table = (config.kind = "LUT")
    ELSE stage = "error"

\* C4 (amended): construction succeeds for the function-approximator kind
\* only, with that one backend made; the tabulated kind, like an unknown one,
\* is a fatal error and no backend is made.
C4_OnlyMLP ==
  stage # "new" =>
    IF config.kind = "MLP"
    THEN stage = "ready" /\ lookup_mlp /\ ~lookup_table
    ELSE stage = "error" /\ ~lookup_mlp /\ ~lookup_table

\* construction with the tabulated kind ended in the fatal error
C4_Witness == stage = "error" /\ config.kind = "LUT"

\* C5: EvaluateDataSet ends in the fatal error exactly when the vector passed
\* has not the size of the selected group; then no query was made and vector
\* and flag are as before; otherwise exactly one query was made.
C5_SizeCheck ==
  flast.op = "EvaluateDataSet" =>
    /\ flast.names = ExpectedSize(flast.group)
    /\ flast.error <=> flast.len # ExpectedSize(flast.group)
    /\ flast.error =>
         /\ fstage = "error"
         /\ n_queries = flast.queries
         /\ flast.output = Zeros(flast.len)
         /\ extrapolation = flast.flag
    /\ ~flast.error =>
         /\ fstage = "ready"
         /\ n_queries = flast.queries + 1
         /\ Size(flast.output) = flast.len

\* a vector of the wrong size was passed for the source terms after a query
C5_Witness ==
  /\ flast.op = "EvaluateDataSet" /\ flast.error /\ flast.group = "SOURCES"
  /\ flast.queries > 0

\* C6: after SetTDState_rhoe(rho, e) the derived state is the one a new
\* instance gets from the same call, whatever ran before, and calling it
\* again changes nothing.
C6_HistoryFree ==
  (pc = "idle" /\ last.op = "rhoe") =>
    /\ fluid = Fresh(last.rho, last.e)
    /\ fluid = ref.fluid
    /\ SetTDState_rhoe(fluid, Kind_DataDriven_Method, config.manifold,
                       last.rho, last.e) = fluid

\* a forward evaluation was made on an instance holding another state
C6_Witness == pc = "idle" /\ last.op = "rhoe" /\ last.warm

\* C7 (as stated): the inversion of the targets read off the forward
\* evaluation at (rho, e) ends with density and energy within tolerance of
\* (rho, e) (the widest tolerance, 10, is taken).
C7_RecoversPoint ==
  (Returned /\ last.roundtrip) =>
    /\ Near(Sub(fluid.Density, last.point[1]), tolerance_P)
    /\ Near(Sub(fluid.StaticEnergy, last.point[2]), tolerance_P)

\* C7 (amended): such an inversion, when it converges, ends with a state whose
\* target pair is within tolerance of the pair read off at (rho, e); density
\* is recovered exactly by the density-fixed variants, and the point itself
\* when it is the initial guess; otherwise (rho, e) need not be recovered.
C7_RecoversTargets ==
  (Returned /\ last.roundtrip /\ last.converged) =>
    LET t == TargetsOf(last.op, Fresh(last.point[1], last.point[2]))
    IN /\ Strict(last.op, fluid, t[1], t[2])
       /\ last.op \in {"Prho", "rhoT"} => fluid.Density = last.point[1]
       /\ (last.point[1] = rho_start /\ last.point[2] = e_start) =>
            /\ fluid = Fresh(last.point[1], last.point[2])
            /\ last.Iter = 1

\* a converged round trip ended more than 10 away from the energy it started at
C7_Witness ==
  /\ Returned /\ last.roundtrip /\ last.converged
  /\ ~Near(Sub(fluid.StaticEnergy, last.point[2]), tolerance_P)

\* C8: the iteration in which the test passes leaves the guess alone, and the
\* state returned by a converged inversion is the forward evaluation at that
\* guess, with every tested residual strictly within its tolerance.
C8_ConvergedWithin ==
  /\ (pc \in Solvers /\ loc.converged) =>
       /\ fluid.Density = loc.rho /\ fluid.StaticEnergy = loc.e
       /\ Strict(pc, fluid, arg.a, arg.b)
  /\ (Returned /\ last.converged) =>
       /\ fluid.Density = last.rho /\ fluid.StaticEnergy = last.e
       /\ Strict(last.op, fluid, last.a, last.b)

\* an inversion converged after moving its guess, with a residual left
C8_Witness ==
  /\ Returned /\ last.converged /\ last.Iter > 1
  /\ Residuals(last.op, fluid, last.a, last.b)[2] # Zero(1)
  /\ Residuals(last.op, fluid, last.a, last.b)[2] # Zero(-1)

\* the density the caller passed to a density-fixed solver
CallerRho(sv, a, b) == IF sv = "Prho" THEN b ELSE a

\* C9: a density-fixed inversion evaluates at the caller's density only and
\* returns, converged or not, with that density.
C9_DensityFixed ==
  /\ pc \in {"Prho", "rhoT"} =>
       /\ loc.rho = CallerRho(pc, arg.a, arg.b)
       /\ loc.Iter > 0 => fluid.Density = CallerRho(pc, arg.a, arg.b)
  /\ (Returned /\ last.op \in {"Prho", "rhoT"}) =>
       /\ fluid.Density = CallerRho(last.op, last.a, last.b)
       /\ last.rho = CallerRho(last.op, last.a, last.b)

\* a density-fixed inversion returned at the cap after moving its energy
C9_Witness ==
  /\ Returned /\ last.op \in {"Prho", "rhoT"} /\ ~last.converged
  /\ last.e # e_start /\ last.warm

\* C10: an inversion starts at the configured guess with Iter = 0 and runs and
\* ends as the same call on a new instance does, whatever state the instance
\* held; a two-variable inversion evaluates first at (rho_start, e_start).
C10_NoWarmStart ==
  /\ (pc \in Solvers /\ loc.Iter = 0) =>
       /\ ~loc.converged
       /\ <<loc.rho, loc.e>> = Guess(pc, arg.a, arg.b, rho_start, e_start)
       /\ <<loc.rho, loc.e>> = <<ref.rho, ref.e>>
  /\ (pc \in Solvers /\ loc.Iter > 0) =>
       /\ OnInstance(loc, fluid) = ref
       /\ (pc \in {"PT", "hs", "Ps"} /\ loc.Iter = 1) =>
            fluid.Density = rho_start /\ fluid.StaticEnergy = e_start
  /\ Returned => fluid = ref.fluid /\ last.Iter = ref.Iter

\* an inversion returned that was called on an instance holding the state of
\* an earlier call and iterated more than once
C10_Witness == Returned /\ last.warm /\ last.Iter > 1

\* the thermodynamic group read off the table at the control variables of the
\* scalar vector sv: progress variable and enthalpy, and the mixture fraction
\* when there are 3 control variables
AtControlVariables(sv) ==
  [i \in 0..(LOOKUP_TD_SIZE - 1) |->
     TableValue(Names_TD[i], sv[I_PROGVAR], sv[I_ENTH],
                IF n_control_vars = 3 THEN sv[I_MIXFRAC] ELSE 0)]

\* the control variables of sv lie in the table
ControlInside(sv) ==
  /\ Inside(sv[I_PROGVAR]) /\ Inside(sv[I_ENTH])
  /\ n_control_vars = 3 => Inside(sv[I_MIXFRAC])

\* SetTDState_T has just returned, and the outcome of the same call with
\* another temperature argument and other user scalars is known
Compared ==
  flast.op = "SetTDState_T" /\ twin.called /\ twin.queries = n_queries

\* C11: SetTDState_T makes one query, at (progress variable, enthalpy) with 2
\* control variables and at (progress variable, enthalpy, mixture fraction)
\* with 3; a call that differs only in the temperature argument or in the user
\* scalars leaves the same looked-up values, flag and derived state; and the
\* operating pressure stays the one given at construction.
C11_ControlVariablesOnly ==
  /\ fstage # "new" => thermo.Pressure = fconfig.pressure
  /\ Compared =>
       /\ ~flast.error /\ ~twin.error
       /\ n_queries = flast.queries + 1
       /\ include_mixture_fraction <=> n_control_vars = 3
       /\ val_vars_TD = AtControlVariables(scalars_vector)
       /\ extrapolation = IF ControlInside(scalars_vector) THEN 0 ELSE 1
       /\ thermo = Closure(Assign_TD(thermo, val_vars_TD))
       /\ twin.val_vars_TD = val_vars_TD
       /\ twin.extrapolation = extrapolation
       /\ twin.thermo = thermo
       /\ twin.before = fconfig.pressure

\* on a used instance with 2 control variables and a user scalar in the slot a
\* mixture fraction would take, the call was compared with one that has another
\* temperature argument and other user scalars
C11_Witness ==
  /\ Compared /\ twin.temperature /\ twin.user
  /\ n_control_vars = 2 /\ n_user_scalars > 0
  /\ scalars_vector[I_MIXFRAC] # 0
  /\ flast.queries > 0

====
